---- MODULE Spec2Model ----
(***************************************************************************)
(* The session / authentication and preference-memory subsystem of the     *)
(* tour-planning assistant: MemoryAgent (src/memory.py) and the handlers   *)
(* of the chat UI that drive it (src/main.py).                             *)
(*                                                                         *)
(* Time is counted in hours.  The graph store is the Neo4j database behind *)
(* MemoryAgent.driver: its User nodes are `users`, its Memory nodes (with  *)
(* their REMEMBERS edge) are `memories`, its Preference nodes (with their  *)
(* INTERESTED_IN edge) are `preferences`.  Every statement sent to the     *)
(* store either executes or raises (the store is unreachable); that choice *)
(* is an input of every action that sends one.                             *)
(***************************************************************************)
EXTENDS Integers, Sequences, FiniteSets, TLC

VARIABLES
    users,          \* graph store: username -> [password, created_at, last_active]
    memories,       \* graph store: sequence of Memory nodes [user, text, timestamp]
    preferences,    \* graph store: sequence of Preference nodes [user, text]
    user_sessions,  \* MemoryAgent.user_sessions: token -> issue time
    issued,         \* the tokens secrets.token_urlsafe has returned so far
    now,            \* the wall clock, datetime.now() and the store's datetime()
    st,             \* st.session_state: authenticated, username, session_token
    ret,            \* the last call: its name, its arguments and what it returned
    calls,          \* per thread: the validate_session call it is running
    login           \* the handle_login / handle_signup call that is running

vars == <<users, memories, preferences, user_sessions, issued, now, st, ret,
          calls, login>>

(***************************************************************************)
(* Bounds of the model.                                                    *)
(***************************************************************************)
MaxTokens == 2
MaxClock == 36
MaxNodes == 2
MaxFacts == 2
MaxThreads == 2

ClockSteps == {12}

(***************************************************************************)
(* Constants of the program.                                               *)
(***************************************************************************)
session_timeout == 24

None == 0
NoUser == "<None>"
NoPassword == "<None>"

Usernames == {"alice", "bob"}
SignupNames == {"alice"}
Passwords == {"s3cret", "wrong"}
Tokens == 1..(MaxTokens + 1)
Threads == 1..MaxThreads

(***************************************************************************)
(* hashlib.sha256(password.encode()).hexdigest()                           *)
(***************************************************************************)
hash_password(password) ==
    CASE password = "s3cret" ->
           "1ec1c26b50d5d3c58d9583181af8076655fe00756bf7285940ba3670f99fcba0"
      [] password = "wrong" ->
           "8810ad581e59f2bc3928b261707a71308f7e139eb04820366dc4d5c18d980225"

(***************************************************************************)
(* secrets.token_urlsafe(32): 256 random bits.  The values it can return   *)
(* are those it has not returned before (a repeat has probability 2^-256   *)
(* per pair and is left out).                                              *)
(***************************************************************************)
token_urlsafe == Tokens \ issued

(***************************************************************************)
(* Mutants: each is the definition after it with one plausible slip.       *)
(***************************************************************************)
MergeUser_overwrite(us, username, hashed_password, clock) ==
    [u \in DOMAIN us \cup {username} |->
        IF u = username
        THEN [password |-> hashed_password,
              created_at |-> IF u \in DOMAIN us THEN us[u].created_at ELSE clock,
              last_active |-> clock]
        ELSE us[u]]

(***************************************************************************)
(* The statement of create_user:                                           *)
(*   MERGE (u:User {username}) ON CREATE SET password, created_at,         *)
(*   last_active  ON MATCH SET last_active  RETURN u.username              *)
(***************************************************************************)
MergeUser(us, username, hashed_password, clock) ==
    IF username \in DOMAIN us
    THEN [us EXCEPT ![username].last_active = clock]
    ELSE [u \in DOMAIN us \cup {username} |->
            IF u = username
            THEN [password |-> hashed_password, created_at |-> clock,
                  last_active |-> clock]
            ELSE us[u]]

MatchUser_any_password(us, username, hashed_password) ==
    username \in DOMAIN us

(***************************************************************************)
(* The statement of authenticate_user:                                     *)
(*   MATCH (u:User {username, password}) SET u.last_active RETURN ...      *)
(* MatchUser is whether it returns a row.                                  *)
(***************************************************************************)
MatchUser(us, username, hashed_password) ==
    /\ username \in DOMAIN us
    /\ us[username].password = hashed_password

TouchUser(us, username, hashed_password, clock) ==
    IF MatchUser(us, username, hashed_password)
    THEN [us EXCEPT ![username].last_active = clock]
    ELSE us

StoreSession_refresh_all(sessions, session_token, clock) ==
    [t \in DOMAIN sessions \cup {session_token} |-> clock]

(***************************************************************************)
(* self.user_sessions[session_token] = datetime.now()                      *)
(***************************************************************************)
StoreSession(sessions, session_token, clock) ==
    [t \in DOMAIN sessions \cup {session_token} |->
        IF t = session_token THEN clock ELSE sessions[t]]

create_user_failure_true(us, username, password, clock, store_ok) ==
    [value |-> TRUE,
     users |-> IF store_ok
               THEN MergeUser(us, username, hash_password(password), clock)
               ELSE us]

create_user_plain(us, username, password, clock, store_ok) ==
    IF store_ok
    THEN [value |-> TRUE, users |-> MergeUser(us, username, password, clock)]
    ELSE [value |-> FALSE, users |-> us]

(***************************************************************************)
(* MemoryAgent.create_user.  store_ok: the store executed the statement;   *)
(* otherwise execute_query raises, which is caught, and False is returned. *)
(***************************************************************************)
create_user(us, username, password, clock, store_ok) ==
    IF store_ok
    THEN [value |-> TRUE,
          users |-> MergeUser(us, username, hash_password(password), clock)]
    ELSE [value |-> FALSE, users |-> us]

(***************************************************************************)
(* MemoryAgent.authenticate_user.  tok is what secrets.token_urlsafe       *)
(* returns if it is called.                                                *)
(***************************************************************************)
UserFound(us, username, password, store_ok) ==
    store_ok /\ MatchUser(us, username, hash_password(password))

authenticate_user(us, sessions, username, password, clock, store_ok, tok) ==
    IF UserFound(us, username, password, store_ok)
    THEN [value |-> tok,
          users |-> TouchUser(us, username, hash_password(password), clock),
          sessions |-> StoreSession(sessions, tok, clock)]
    ELSE [value |-> None, users |-> us, sessions |-> sessions]

(***************************************************************************)
(* What the call of secrets.token_urlsafe in authenticate_user can return: *)
(* it is called only when the user was found.                              *)
(***************************************************************************)
TokenDraw(called) == IF called THEN token_urlsafe ELSE {None}

Expired_inclusive(sessions, session_token, clock) ==
    clock - sessions[session_token] >= session_timeout

validate_sessions_sliding(sessions, session_token, clock) ==
    IF session_token \notin DOMAIN sessions
    THEN sessions
    ELSE IF clock - sessions[session_token] > session_timeout
    THEN [t \in DOMAIN sessions \ {session_token} |-> sessions[t]]
    ELSE [sessions EXCEPT ![session_token] = clock]

validate_sessions_renew_expired(sessions, session_token, clock) ==
    IF session_token \in DOMAIN sessions
       /\ clock - sessions[session_token] > session_timeout
    THEN [sessions EXCEPT ![session_token] = clock]
    ELSE sessions

validate_value_default_true(sessions, session_token, clock) ==
    IF session_token \notin DOMAIN sessions
    THEN TRUE
    ELSE clock - sessions[session_token] <= session_timeout

(***************************************************************************)
(* MemoryAgent.validate_session: the value it returns, and the session     *)
(* table it leaves.                                                        *)
(***************************************************************************)
Expired(sessions, session_token, clock) ==
    clock - sessions[session_token] > session_timeout

validate_value(sessions, session_token, clock) ==
    IF session_token \notin DOMAIN sessions
    THEN FALSE
    ELSE ~Expired(sessions, session_token, clock)

validate_sessions(sessions, session_token, clock) ==
    IF session_token \in DOMAIN sessions /\ Expired(sessions, session_token, clock)
    THEN [t \in DOMAIN sessions \ {session_token} |-> sessions[t]]
    ELSE sessions

(***************************************************************************)
(* The state after construction: MemoryAgent.__init__, init_session_state, *)
(* and an empty graph store.                                               *)
(***************************************************************************)
Returned == "returned"
NoValue == [keys |-> {}]

Call(op, username, password, token, result, store_ok) ==
    [op |-> op, username |-> username, password |-> password, token |-> token,
     result |-> result, store_ok |-> store_ok, outcome |-> Returned,
     value |-> NoValue]

GraphCall(op, username, outcome, value, store_ok) ==
    [op |-> op, username |-> username, password |-> NoPassword, token |-> None,
     result |-> FALSE, store_ok |-> store_ok, outcome |-> outcome,
     value |-> value]

NoTime == -1

IdleCall == [pc |-> "idle", token |-> None, session_time |-> NoTime,
             outcome |-> Returned, result |-> FALSE]

IdleLogin == [op |-> "none", pc |-> "idle", username |-> NoUser,
              password |-> NoPassword, success |-> FALSE, found |-> FALSE,
              session_token |-> None, store_ok |-> TRUE]

Init ==
    /\ calls = [th \in Threads |-> IdleCall]
    /\ login = IdleLogin
    /\ users = <<>>
    /\ memories = <<>>
    /\ preferences = <<>>
    /\ user_sessions = <<>>
    /\ issued = {}
    /\ now = 0
    /\ st = [authenticated |-> FALSE, username |-> NoUser, session_token |-> None]
    /\ ret = Call("init", NoUser, NoPassword, None, FALSE, TRUE)

(***************************************************************************)
(* main.handle_login                                                       *)
(***************************************************************************)
LoginState(state, username, session_token) ==
    IF session_token # None
    THEN [authenticated |-> TRUE, username |-> username,
          session_token |-> session_token]
    ELSE state

handle_login(username, password) ==
    \E store_ok \in BOOLEAN :
      \E tok \in TokenDraw(UserFound(users, username, password, store_ok)) :
        LET r == authenticate_user(users, user_sessions, username, password,
                                   now, store_ok, tok)
        IN  /\ r.value # None => Cardinality(issued) < MaxTokens
            /\ users' = r.users
            /\ user_sessions' = r.sessions
            /\ issued' = IF r.value # None THEN issued \cup {tok} ELSE issued
            /\ st' = LoginState(st, username, r.value)
            /\ ret' = Call("handle_login", username, password, r.value,
                           r.value # None, store_ok)
            /\ UNCHANGED <<calls, login, memories, preferences, now>>

(***************************************************************************)
(* main.handle_signup.  create_ok, auth_ok: the store executed the         *)
(* statement of create_user, of authenticate_user (which is not sent when  *)
(* create_user returned False).                                            *)
(***************************************************************************)
handle_signup(username, password) ==
    \E create_ok \in BOOLEAN, auth_ok \in BOOLEAN :
      LET c == create_user(users, username, password, now, create_ok) IN
      \E tok \in TokenDraw(c.value /\ UserFound(c.users, username, password, auth_ok)) :
        LET r == IF c.value
                 THEN authenticate_user(c.users, user_sessions, username,
                                        password, now, auth_ok, tok)
                 ELSE [value |-> None, users |-> c.users,
                       sessions |-> user_sessions]
        IN  /\ r.value # None => Cardinality(issued) < MaxTokens
            /\ ~c.value => auth_ok
            /\ users' = r.users
            /\ user_sessions' = r.sessions
            /\ issued' = IF r.value # None THEN issued \cup {tok} ELSE issued
            /\ st' = LoginState(st, username, r.value)
            /\ ret' = Call("handle_signup", username, password, r.value,
                           r.value # None, create_ok /\ auth_ok)
            /\ UNCHANGED <<calls, login, memories, preferences, now>>

(***************************************************************************)
(* MemoryAgent.validate_session, called with any token.                    *)
(***************************************************************************)
validate_session(session_token) ==
    /\ user_sessions' = validate_sessions(user_sessions, session_token, now)
    /\ ret' = Call("validate_session", NoUser, NoPassword, session_token,
                   validate_value(user_sessions, session_token, now), TRUE)
    /\ UNCHANGED <<calls, login, users, memories, preferences, issued, now, st>>

(***************************************************************************)
(* main.chat_interface, one run of the page of an authenticated browser    *)
(* session: the session token is validated first; the Logout button, when  *)
(* it was clicked, is handled after that.                                  *)
(***************************************************************************)
LogoutState == [authenticated |-> FALSE, username |-> NoUser, session_token |-> None]

chat_interface(logout_clicked) ==
    LET valid == validate_value(user_sessions, st.session_token, now)
    IN  /\ st.authenticated
        /\ user_sessions' = validate_sessions(user_sessions, st.session_token, now)
        /\ st' = IF ~valid THEN [st EXCEPT !.authenticated = FALSE]
                 ELSE IF logout_clicked THEN LogoutState
                 ELSE st
        /\ ret' = Call(IF valid /\ logout_clicked THEN "logout" ELSE "chat_interface",
                       NoUser, NoPassword, st.session_token, valid, TRUE)
        /\ UNCHANGED <<calls, login, users, memories, preferences, issued, now>>

(***************************************************************************)
(* The clock advances.                                                     *)
(***************************************************************************)
Tick ==
    \E d \in ClockSteps :
        /\ now + d <= MaxClock
        /\ now' = now + d
        /\ ret' = Call("tick", NoUser, NoPassword, None, FALSE, TRUE)
        /\ UNCHANGED <<calls, login, users, memories, preferences, user_sessions, issued, st>>

(***************************************************************************)
(* MemoryAgent.create_user, called on its own.                             *)
(***************************************************************************)
register(username, password) ==
    \E store_ok \in BOOLEAN :
        LET c == create_user(users, username, password, now, store_ok)
        IN  /\ users' = c.users
            /\ ret' = Call("create_user", username, password, None, c.value,
                           store_ok)
            /\ UNCHANGED <<calls, login, memories, preferences, user_sessions, issued, now, st>>

Login == \E username \in Usernames, password \in Passwords :
            handle_login(username, password)

Signup == \E username \in SignupNames, password \in Passwords :
            handle_signup(username, password)

Register == \E username \in SignupNames, password \in Passwords :
            register(username, password)

Validate == \E session_token \in Tokens \cup {None} : validate_session(session_token)

ChatPage == chat_interface(FALSE)

Logout == chat_interface(TRUE)

Next ==
    \/ Login
    \/ Signup
    \/ Register
    \/ Validate
    \/ ChatPage
    \/ Logout
    \/ Tick

Spec == Init /\ [][Next]_vars

(***************************************************************************)
(* The preference memory.                                                  *)
(*                                                                         *)
(* What extract_preferences hands over: a list of dicts, each with the     *)
(* entities the extractor found (an empty list stands for a dict that has  *)
(* no "entities" key).  An entity is written as its properties["text"],    *)
(* or NoText when its properties have no "text".  An extraction is that    *)
(* list, or the extractor raising (OnError.RAISE).                         *)
(***************************************************************************)
NoText == "<no text>"
FactTexts == {"likes hiking"}
MemoryTexts == {"I like hiking"}
Entities == FactTexts \cup {NoText}

EntityLists == UNION {[1..n -> Entities] : n \in 1..MaxFacts}
ExtractedData == {<<>>} \cup {<<[entities |-> es]>> : es \in EntityLists}
Extractions == {[raised |-> TRUE, data |-> <<>>]}
               \cup {[raised |-> FALSE, data |-> d] : d \in ExtractedData}

(***************************************************************************)
(* Driver.execute_query(query_, parameters_=None, ..., **kwargs): the      *)
(* statement's parameters are parameters_ and the keyword arguments whose  *)
(* names do not end in "_".  The store rejects a statement that uses a     *)
(* parameter the call did not pass (ParameterMissing).                     *)
(***************************************************************************)
QueryRuns(store_ok, passed, used) == store_ok /\ used \subseteq passed

(***************************************************************************)
(* The statement of store_user_memory:                                     *)
(*   MATCH (u:User {username}) CREATE (m:Memory {text, timestamp})         *)
(*   CREATE (u)-[:REMEMBERS]->(m)                                          *)
(***************************************************************************)
CreateMemory(mems, us, username, text, clock) ==
    IF username \in DOMAIN us
    THEN Append(mems, [user |-> username, text |-> text, timestamp |-> clock])
    ELSE mems

(***************************************************************************)
(* The statement of _store_preferences:                                    *)
(*   MATCH (u:User {username})                                             *)
(*   CREATE (u)-[:INTERESTED_IN]->(n:Preference {text})                    *)
(***************************************************************************)
CreatePreference(prefs, us, username, text) ==
    IF username \in DOMAIN us
    THEN Append(prefs, [user |-> username, text |-> text])
    ELSE prefs

(***************************************************************************)
(* The call of execute_query in _store_preferences passes the keyword      *)
(* arguments parameters=params and database_="neo4j"; the statement uses   *)
(* $username and $text.                                                    *)
(***************************************************************************)
PreferenceQueryPassed == {"parameters"}
PreferenceQueryUsed == {"username", "text"}

(***************************************************************************)
(* MemoryAgent._store_preferences over the entities of the dicts, in       *)
(* order.  params_bound: the local params has been assigned.  An exception *)
(* in the loop ends it; the handler prints params, which raises            *)
(* UnboundLocalError out of the method when params was never assigned.     *)
(***************************************************************************)
RECURSIVE Flatten(_)
Flatten(extracted_data) ==
    IF extracted_data = <<>>
    THEN <<>>
    ELSE Head(extracted_data).entities \o Flatten(Tail(extracted_data))

RECURSIVE StoreEntities(_, _, _, _, _, _)
StoreEntities(prefs, us, username, entities, params_bound, store_ok) ==
    IF entities = <<>>
    THEN [preferences |-> prefs, outcome |-> Returned]
    ELSE IF Head(entities) = NoText
    THEN [preferences |-> prefs,
          outcome |-> IF params_bound THEN Returned ELSE "UnboundLocalError"]
    ELSE IF ~QueryRuns(store_ok, PreferenceQueryPassed, PreferenceQueryUsed)
    THEN [preferences |-> prefs, outcome |-> Returned]
    ELSE StoreEntities(CreatePreference(prefs, us, username, Head(entities)),
                       us, username, Tail(entities), TRUE, store_ok)

store_preferences(prefs, us, username, extracted_data, store_ok) ==
    StoreEntities(prefs, us, username, Flatten(extracted_data), FALSE, store_ok)

(***************************************************************************)
(* MemoryAgent.store_user_memory.  Every exception is caught and printed;  *)
(* the method returns None.                                                *)
(***************************************************************************)
store_user_memory(mems, prefs, us, username, text, clock, extraction, memory_ok, prefs_ok) ==
    IF extraction.raised \/ ~memory_ok
    THEN [memories |-> mems, preferences |-> prefs, outcome |-> Returned]
    ELSE LET written == CreateMemory(mems, us, username, text, clock)
         IN  IF extraction.data = <<>>
             THEN [memories |-> written, preferences |-> prefs,
                   outcome |-> Returned]
             ELSE [memories |-> written,
                   preferences |->
                       store_preferences(prefs, us, username,
                                         extraction.data, prefs_ok).preferences,
                   outcome |-> Returned]

(***************************************************************************)
(* The statement of get_user_preferences: no row when there is no such     *)
(* User node, else one row with the collected Preference nodes behind      *)
(* HAS_PREFERENCE, City nodes behind VISITED and Activity nodes behind     *)
(* INTERESTED_IN.  The program writes none of these: the nodes it puts     *)
(* behind INTERESTED_IN are labelled Preference.                           *)
(***************************************************************************)
PreferenceRows(us, username) ==
    IF username \in DOMAIN us
    THEN <<[preferences |-> <<>>, visited_cities |-> <<>>, interests |-> <<>>]>>
    ELSE <<>>

(***************************************************************************)
(* MemoryAgent._format_preferences on an EagerResult (records, summary,    *)
(* keys): result[0] is the list of records.  With no record it returns     *)
(* the empty dict; otherwise it indexes the list of records with           *)
(* "preferences", which raises TypeError.                                  *)
(***************************************************************************)
format_preferences(records) ==
    IF records = <<>>
    THEN [outcome |-> Returned, value |-> NoValue]
    ELSE [outcome |-> "TypeError", value |-> NoValue]

(***************************************************************************)
(* MemoryAgent.get_user_preferences.  self.driver is the synchronous       *)
(* driver of GraphDatabase.driver: execute_query returns an EagerResult,   *)
(* which is not awaitable, so the await raises TypeError.  An unreachable  *)
(* store raises out of execute_query; nothing here catches either.         *)
(***************************************************************************)
EagerResultAwaitable == FALSE

get_user_preferences(us, username, store_ok) ==
    IF ~store_ok
    THEN [outcome |-> "ServiceUnavailable", value |-> NoValue]
    ELSE IF ~EagerResultAwaitable
    THEN [outcome |-> "TypeError", value |-> NoValue]
    ELSE format_preferences(PreferenceRows(us, username))

(***************************************************************************)
(* The calls of the preference memory.                                     *)
(***************************************************************************)
call_store_user_memory(username, text, extraction) ==
    \E memory_ok \in BOOLEAN, prefs_ok \in BOOLEAN :
        LET r == store_user_memory(memories, preferences, users, username,
                                   text, now, extraction, memory_ok, prefs_ok)
        IN  /\ Len(r.memories) <= MaxNodes
            /\ Len(r.preferences) <= MaxNodes
            /\ memories' = r.memories
            /\ preferences' = r.preferences
            /\ ret' = GraphCall("store_user_memory", username, r.outcome,
                                NoValue, memory_ok /\ prefs_ok)
            /\ UNCHANGED <<calls, login, users, user_sessions, issued, now, st>>

call_store_preferences(username, extracted_data) ==
    \E store_ok \in BOOLEAN :
        LET r == store_preferences(preferences, users, username,
                                   extracted_data, store_ok)
        IN  /\ Len(r.preferences) <= MaxNodes
            /\ preferences' = r.preferences
            /\ ret' = GraphCall("_store_preferences", username, r.outcome,
                                NoValue, store_ok)
            /\ UNCHANGED <<calls, login, users, memories, user_sessions, issued, now, st>>

call_get_user_preferences(username) ==
    \E store_ok \in BOOLEAN :
        LET r == get_user_preferences(users, username, store_ok)
        IN  /\ ret' = GraphCall("get_user_preferences", username, r.outcome,
                                r.value, store_ok)
            /\ UNCHANGED <<calls, login, users, memories, preferences, user_sessions,
                           issued, now, st>>

RecordMemory == \E username \in Usernames, text \in MemoryTexts,
                   extraction \in Extractions :
                    call_store_user_memory(username, text, extraction)

RecordFacts == \E username \in Usernames, extracted_data \in ExtractedData \ {<<>>} :
                    call_store_preferences(username, extracted_data)

GetPreferences == \E username \in Usernames : call_get_user_preferences(username)

NextGraph ==
    \/ Register
    \/ RecordMemory
    \/ RecordFacts
    \/ GetPreferences
    \/ Tick

GraphSpec == Init /\ [][NextGraph]_vars

(***************************************************************************)
(* The claims.  SessionValid(t): validate_session(t) would return True in  *)
(* this state.                                                             *)
(***************************************************************************)
SessionValid(session_token) == validate_value(user_sessions, session_token, now)

SessionValidNext(session_token) == validate_value(user_sessions', session_token, now')

LoginOps == {"handle_login", "handle_signup"}

(***************************************************************************)
(* The step is the call op(username, password).                            *)
(***************************************************************************)
IsCall(op, username, password) ==
    /\ ret'.op = op
    /\ ret'.username = username
    /\ ret'.password = password

IsLogin(username, password) ==
    IsCall("handle_login", username, password) /\ handle_login(username, password)

IsSignup(username, password) ==
    IsCall("handle_signup", username, password) /\ handle_signup(username, password)

IsRegister(username, password) ==
    IsCall("create_user", username, password) /\ register(username, password)

IsValidate(session_token) ==
    /\ ret'.op = "validate_session"
    /\ ret'.token = session_token
    /\ validate_session(session_token)

IsLogout == ret'.op = "logout" /\ chat_interface(TRUE)

(***************************************************************************)
(* C1: a token returned by a successful login validates as true            *)
(* immediately, as false once more than 24 h have passed since it was      *)
(* issued, and as false after the logout of that token, which removes its  *)
(* entry from the session table.                                           *)
(***************************************************************************)
C1_TokenLifecycle ==
    /\ (ret.op \in LoginOps /\ ret.token # None) => SessionValid(ret.token)
    /\ \A t \in DOMAIN user_sessions :
          now - user_sessions[t] > session_timeout => ~SessionValid(t)
    /\ ret.op = "logout" =>
          (ret.token \notin DOMAIN user_sessions /\ ~SessionValid(ret.token))

(***************************************************************************)
(* C2: while the graph store is reachable, signup(username, password) on   *)
(* a username not yet registered succeeds, the credentials it stored stay  *)
(* the user's credentials in every later state, login with them succeeds,  *)
(* and each returned token validates as true.                              *)
(***************************************************************************)
C2_SignupThenLogin ==
    [][\A u \in Usernames, p \in Passwords :
         /\ (IsSignup(u, p) /\ u \notin DOMAIN users /\ ret'.store_ok)
               => /\ ret'.token # None
                  /\ SessionValidNext(ret'.token)
                  /\ MatchUser(users', u, hash_password(p))
         /\ (IsLogin(u, p) /\ MatchUser(users, u, hash_password(p))
                                /\ ret'.store_ok)
               => /\ ret'.token # None
                  /\ SessionValidNext(ret'.token)
         /\ MatchUser(users, u, hash_password(p))
               => MatchUser(users', u, hash_password(p))
      ]_vars

C2_Witness ==
    /\ ret.op = "handle_login"
    /\ ret.token # None
    /\ SessionValid(ret.token)
    /\ users[ret.username].created_at < now
    /\ \E t \in DOMAIN user_sessions : t # ret.token /\ SessionValid(t)

(***************************************************************************)
(* C3: for an existing user, a login with a password whose digest differs  *)
(* from the stored one returns no token and leaves the session table (and  *)
(* the browser session) unchanged, in every reachable state; so does the   *)
(* login that a signup on that username with such a password runs.         *)
(***************************************************************************)
C3_WrongPasswordFails ==
    [][\A u \in Usernames, p \in Passwords :
         ((IsLogin(u, p) \/ IsSignup(u, p))
            /\ u \in DOMAIN users
            /\ users[u].password # hash_password(p))
         => /\ ret'.token = None
            /\ ~ret'.result
            /\ user_sessions' = user_sessions
            /\ st' = st
            /\ users'[u].password = users[u].password
      ]_vars

C3_Witness ==
    /\ ret.op = "handle_login"
    /\ ret.store_ok
    /\ ret.username \in DOMAIN users
    /\ users[ret.username].password # hash_password(ret.password)
    /\ ret.token = None
    /\ user_sessions # <<>>
    /\ users[ret.username].created_at < now

(***************************************************************************)
(* C4: validate_session on a token that was never issued returns False     *)
(* and leaves the session table unchanged.                                 *)
(***************************************************************************)
C4_UnknownTokenInvalid ==
    [][\A t \in Tokens \cup {None} :
         (IsValidate(t) /\ t \notin issued)
         => (ret'.result = FALSE /\ user_sessions' = user_sessions)
      ]_vars

C4_Witness ==
    /\ ret.op = "validate_session"
    /\ ret.token # None
    /\ ret.token \notin issued
    /\ ~ret.result
    /\ user_sessions # <<>>

(***************************************************************************)
(* C5: with two tokens T1 and T2 issued by two logins of the same user,    *)
(* logout(T1) makes validate(T1) false while validate(T2) stays true: a    *)
(* logout never changes the validity of another token.                     *)
(***************************************************************************)
C5_LogoutIsolated ==
    [][IsLogout
         => /\ ~SessionValidNext(ret'.token)
            /\ \A t2 \in Tokens \ {ret'.token} :
                  SessionValid(t2) <=> SessionValidNext(t2)
      ]_vars

(***************************************************************************)
(* C6: get_user_preferences never reports an error and always returns a    *)
(* snapshot with the three lists preferences, visited_cities and           *)
(* interests, each empty when there is nothing to report, for an existing  *)
(* user with no recorded facts and for a username with no User node.       *)
(* Stated for the calls during which the store was reachable.              *)
(***************************************************************************)
SnapshotKeys == {"preferences", "visited_cities", "interests"}

C6_PreferencesSnapshot ==
    (ret.op = "get_user_preferences" /\ ret.store_ok)
    => /\ ret.outcome = Returned
       /\ ret.value.keys = SnapshotKeys
       /\ ret.value.preferences = <<>>
       /\ ret.value.visited_cities = <<>>
       /\ ret.value.interests = <<>>

(***************************************************************************)
(* C7: store_user_memory for a username that has no User node reports      *)
(* NotFound to the caller and writes nothing: no Memory node, no           *)
(* Preference node, no edge.  Stated for the calls during which the        *)
(* extractor did not raise and the store was reachable.                    *)
(***************************************************************************)
IsStoreMemory(username, text, extraction) ==
    /\ ret'.op = "store_user_memory"
    /\ ret'.username = username
    /\ call_store_user_memory(username, text, extraction)

C7_MissingUserNotFound ==
    [][\A u \in Usernames, text \in MemoryTexts, extraction \in Extractions :
         (IsStoreMemory(u, text, extraction)
            /\ u \notin DOMAIN users
            /\ ~extraction.raised
            /\ ret'.store_ok)
         => /\ ret'.outcome = "NotFound"
            /\ memories' = memories
            /\ preferences' = preferences
      ]_vars

(***************************************************************************)
(* C8: _store_preferences does not deduplicate: for an existing user each  *)
(* call adds one Preference node (and its INTERESTED_IN edge) per fact, so *)
(* two calls with the same one fact leave two nodes.                       *)
(***************************************************************************)
IsStorePreferences(username, extracted_data) ==
    /\ ret'.op = "_store_preferences"
    /\ ret'.username = username
    /\ call_store_preferences(username, extracted_data)

AllHaveText(entities) == \A i \in 1..Len(entities) : entities[i] # NoText

C8_FactsNotDeduplicated ==
    [][\A u \in Usernames, extracted_data \in ExtractedData \ {<<>>} :
         (IsStorePreferences(u, extracted_data)
            /\ u \in DOMAIN users
            /\ ret'.store_ok
            /\ AllHaveText(Flatten(extracted_data)))
         => /\ Len(preferences')
                 = Len(preferences) + Len(Flatten(extracted_data))
            /\ \A i \in 1..Len(Flatten(extracted_data)) :
                  preferences'[Len(preferences) + i]
                     = [user |-> u, text |-> Flatten(extracted_data)[i]]
      ]_vars

(***************************************************************************)
(* C9: a successful login stores its token under a key that was in the     *)
(* session table at no earlier time, and leaves every other entry of the   *)
(* table, issue time included, as it was.  (That the token differs from    *)
(* every token drawn before is what token_urlsafe is taken to deliver.)    *)
(***************************************************************************)
C9_TokenFresh ==
    [][\A u \in Usernames, p \in Passwords :
         ((IsLogin(u, p) \/ IsSignup(u, p)) /\ ret'.token # None)
         => /\ ret'.token \notin issued
            /\ ret'.token \notin DOMAIN user_sessions
            /\ DOMAIN user_sessions' = DOMAIN user_sessions \cup {ret'.token}
            /\ user_sessions'[ret'.token] = now
            /\ \A t \in DOMAIN user_sessions :
                  user_sessions'[t] = user_sessions[t]
      ]_vars

C9_Witness ==
    /\ ret.op = "handle_login"
    /\ ret.token # None
    /\ \E t \in DOMAIN user_sessions :
          t # ret.token /\ user_sessions[t] < user_sessions[ret.token]

(***************************************************************************)
(* C10: while the graph store is reachable, create_user on a username that *)
(* already exists returns True and leaves the stored password hash and     *)
(* created_at unchanged (only last_active is refreshed); so a signup on an *)
(* existing username yields a token iff the digest of the supplied         *)
(* password is the stored one, that of the first registration.             *)
(***************************************************************************)
C10_RegisterExisting ==
    [][\A u \in Usernames, p \in Passwords :
         /\ ((IsRegister(u, p) \/ IsSignup(u, p)) /\ u \in DOMAIN users)
               => /\ DOMAIN users' = DOMAIN users
                  /\ users'[u].password = users[u].password
                  /\ users'[u].created_at = users[u].created_at
         /\ (IsRegister(u, p) /\ u \in DOMAIN users /\ ret'.store_ok)
               => /\ ret'.result = TRUE
                  /\ users'[u].last_active = now
         /\ (IsSignup(u, p) /\ u \in DOMAIN users /\ ret'.store_ok)
               => /\ ret'.token # None <=> users[u].password = hash_password(p)
                  /\ users'[u].last_active = now
      ]_vars

C10_Witness ==
    /\ ret.op = "handle_signup"
    /\ ret.store_ok
    /\ ret.token = None
    /\ ret.username \in DOMAIN users
    /\ users[ret.username].password # hash_password(ret.password)
    /\ users[ret.username].created_at < users[ret.username].last_active
    /\ users[ret.username].last_active = now

(***************************************************************************)
(* The step validates a token: validate_session called directly, or by     *)
(* chat_interface on the token of the browser session.                     *)
(***************************************************************************)
ValidateOps == {"validate_session", "chat_interface", "logout"}

IsValidation(session_token) ==
    /\ ret'.op \in ValidateOps
    /\ ret'.token = session_token
    /\ \/ validate_session(session_token)
       \/ (st.session_token = session_token
             /\ (chat_interface(TRUE) \/ chat_interface(FALSE)))

(***************************************************************************)
(* C11: validate_session never changes a stored issue time: whatever it    *)
(* returns, every entry it leaves in the table has the issue time it had,  *)
(* so the session still expires 24 h after issuance; and a call that       *)
(* returns True leaves the whole session table unchanged.                  *)
(***************************************************************************)
C11_ValidateKeepsIssueTime ==
    [][\A t \in Tokens \cup {None} :
         IsValidation(t)
         => /\ \A t2 \in DOMAIN user_sessions' :
                  /\ t2 \in DOMAIN user_sessions
                  /\ user_sessions'[t2] = user_sessions[t2]
            /\ ret'.result => user_sessions' = user_sessions
      ]_vars

C11_Witness ==
    /\ ret.op = "validate_session"
    /\ ret.result
    /\ ret.token \in DOMAIN user_sessions
    /\ user_sessions[ret.token] < now
    /\ now - user_sessions[ret.token] = session_timeout

(***************************************************************************)
(* C12: a token that was issued and does not validate (it is absent from   *)
(* the table, or its entry is older than 24 h) never validates again: no   *)
(* login, signup, validation, logout or clock step makes it valid.         *)
(***************************************************************************)
C12_InvalidStaysInvalid ==
    [][\A t \in issued : ~SessionValid(t) => ~SessionValidNext(t)]_vars

C12_Witness ==
    /\ ret.op = "validate_session"
    /\ ret.token \in issued
    /\ ret.token \notin DOMAIN user_sessions
    /\ ~ret.result
    /\ \E t2 \in DOMAIN user_sessions : t2 # ret.token /\ SessionValid(t2)

(***************************************************************************)
(* C13: expiry is lazy and the comparison strict.  A validation of a       *)
(* token in the table returns False and deletes the entry iff now minus    *)
(* the issue time is greater than 24 h; otherwise (at exactly 24 h too) it *)
(* returns True and keeps the entry.  No other step removes an entry: an   *)
(* expired entry stays until a validation of that token sees it.           *)
(***************************************************************************)
C13_LazyStrictExpiry ==
    [][/\ \A t \in DOMAIN user_sessions :
            IsValidation(t)
            => IF now - user_sessions[t] > session_timeout
               THEN ~ret'.result /\ t \notin DOMAIN user_sessions'
               ELSE ret'.result /\ t \in DOMAIN user_sessions'
       /\ \A t \in DOMAIN user_sessions :
            t \notin DOMAIN user_sessions' => IsValidation(t)
      ]_vars

C13_Witness ==
    /\ ret.op = "validate_session"
    /\ ret.result
    /\ ret.token \in DOMAIN user_sessions
    /\ now - user_sessions[ret.token] = session_timeout
    /\ \E t2 \in DOMAIN user_sessions :
          now - user_sessions[t2] > session_timeout

(***************************************************************************)
(* C14: a failure of the graph store does not leave create_user or         *)
(* authenticate_user: create_user returns False and writes no user; the    *)
(* login returns no token, adds no entry to the session table and leaves   *)
(* the browser session as it was, exactly as a login with a wrong          *)
(* password or a missing user does.                                        *)
(***************************************************************************)
C14_StoreFailureSwallowed ==
    [][\A u \in Usernames, p \in Passwords :
         /\ (IsRegister(u, p) /\ ~ret'.store_ok)
               => /\ ret'.outcome = Returned
                  /\ ret'.result = FALSE
                  /\ users' = users
         /\ (IsLogin(u, p) /\ ~ret'.store_ok)
               => /\ ret'.outcome = Returned
                  /\ ret'.token = None
                  /\ ret'.result = FALSE
                  /\ user_sessions' = user_sessions
                  /\ users' = users
                  /\ st' = st
         /\ (IsSignup(u, p) /\ ~ret'.store_ok)
               => /\ ret'.outcome = Returned
                  /\ ret'.token = None
                  /\ ret'.result = FALSE
                  /\ user_sessions' = user_sessions
                  /\ st' = st
      ]_vars

C14_Witness ==
    /\ ret.op = "handle_login"
    /\ ~ret.store_ok
    /\ ret.token = None
    /\ MatchUser(users, ret.username, hash_password(ret.password))
    /\ user_sessions # <<>>

(***************************************************************************)
(* MemoryAgent.validate_session run by several threads on one MemoryAgent, *)
(* one statement at a time: nothing in the source locks user_sessions.     *)
(* pc names the line of src/memory.py the thread runs next.                *)
(* A call that has ended keeps how it ended; its argument and its locals   *)
(* are gone.  The token a thread presents is one that was issued, or None. *)
(***************************************************************************)
Finish(call, outcome, result) ==
    [call EXCEPT !.pc = "done", !.token = None, !.session_time = NoTime,
                 !.outcome = outcome, !.result = result]

thread_begin(th, session_token) ==
    /\ calls[th].pc \in {"idle", "done"}
    /\ calls' = [calls EXCEPT ![th] =
                    [IdleCall EXCEPT !.pc = "l271", !.token = session_token]]
    /\ UNCHANGED <<login, users, memories, preferences, user_sessions, issued,
                   now, st, ret>>

\* 271-272: if session_token not in self.user_sessions: return False
thread_line271(th) ==
    /\ calls[th].pc = "l271"
    /\ calls' = [calls EXCEPT ![th] =
                    IF calls[th].token \notin DOMAIN user_sessions
                    THEN Finish(calls[th], Returned, FALSE)
                    ELSE [calls[th] EXCEPT !.pc = "l274"]]
    /\ UNCHANGED <<login, users, memories, preferences, user_sessions, issued,
                   now, st, ret>>

\* 274: session_time = self.user_sessions[session_token]
thread_line274(th) ==
    /\ calls[th].pc = "l274"
    /\ calls' = [calls EXCEPT ![th] =
                    IF calls[th].token \notin DOMAIN user_sessions
                    THEN Finish(calls[th], "KeyError", FALSE)
                    ELSE [calls[th] EXCEPT
                            !.pc = "l275",
                            !.session_time = user_sessions[calls[th].token]]]
    /\ UNCHANGED <<login, users, memories, preferences, user_sessions, issued,
                   now, st, ret>>

\* 275, 279: if datetime.now() - session_time > self.session_timeout / return True
thread_line275(th) ==
    /\ calls[th].pc = "l275"
    /\ calls' = [calls EXCEPT ![th] =
                    IF now - calls[th].session_time > session_timeout
                    THEN [calls[th] EXCEPT !.pc = "l276"]
                    ELSE Finish(calls[th], Returned, TRUE)]
    /\ UNCHANGED <<login, users, memories, preferences, user_sessions, issued,
                   now, st, ret>>

\* 276-277: del self.user_sessions[session_token]; return False
thread_line276(th) ==
    /\ calls[th].pc = "l276"
    /\ IF calls[th].token \notin DOMAIN user_sessions
       THEN /\ calls' = [calls EXCEPT ![th] = Finish(calls[th], "KeyError", FALSE)]
            /\ UNCHANGED user_sessions
       ELSE /\ calls' = [calls EXCEPT ![th] = Finish(calls[th], Returned, FALSE)]
            /\ user_sessions' = [t \in DOMAIN user_sessions \ {calls[th].token}
                                    |-> user_sessions[t]]
    /\ UNCHANGED <<login, users, memories, preferences, issued, now, st, ret>>

ThreadBegin == \E th \in Threads, session_token \in issued \cup {None} :
                  thread_begin(th, session_token)

ThreadStep == \E th \in Threads :
                 \/ thread_line271(th)
                 \/ thread_line274(th)
                 \/ thread_line275(th)
                 \/ thread_line276(th)

(***************************************************************************)
(* main.handle_login and main.handle_signup run one statement at a time    *)
(* while the threads above run validate_session on the same MemoryAgent.   *)
(* login.pc names the line the call runs next: "memoryN" is line N of      *)
(* src/memory.py, "mainN" line N of src/main.py.  A statement sent to the  *)
(* store is one transaction of the store; the call waits for it, and so    *)
(* the other threads run before and after it.  login.success is the local  *)
(* success of handle_signup, login.found is `result and result[0]`,        *)
(* login.session_token is the local session_token of authenticate_user     *)
(* and then of handle_login.                                               *)
(***************************************************************************)
login_begin(op, username, password) ==
    /\ login.pc = "idle"
    /\ login' = [IdleLogin EXCEPT
                    !.op = op,
                    !.pc = IF op = "handle_signup" THEN "memory232"
                           ELSE "memory252",
                    !.username = username,
                    !.password = password]
    /\ UNCHANGED <<calls, users, memories, preferences, user_sessions, issued,
                   now, st, ret>>

login_return(result) ==
    /\ ret' = Call(login.op, login.username, login.password,
                   IF result THEN login.session_token ELSE None, result,
                   login.store_ok)
    /\ login' = IdleLogin

\* memory.py 232-241: create_user sends its statement and returns
login_memory232 ==
    /\ login.pc = "memory232"
    /\ \E store_ok \in BOOLEAN :
         LET c == create_user(users, login.username, login.password, now,
                              store_ok)
         IN  /\ users' = c.users
             /\ login' = [login EXCEPT !.pc = "main49", !.success = c.value,
                                       !.store_ok = store_ok]
    /\ UNCHANGED <<calls, memories, preferences, user_sessions, issued, now,
                   st, ret>>

\* main.py 49-51: if success: return handle_login(...) / return False
login_main49 ==
    /\ login.pc = "main49"
    /\ IF login.success
       THEN /\ login' = [login EXCEPT !.pc = "memory252"]
            /\ UNCHANGED ret
       ELSE login_return(FALSE)
    /\ UNCHANGED <<calls, users, memories, preferences, user_sessions, issued,
                   now, st>>

\* memory.py 252-257, 265-267: authenticate_user sends its statement; when
\* the store raises, the handler returns None
login_memory252 ==
    /\ login.pc = "memory252"
    /\ \E store_ok \in BOOLEAN :
         LET found == UserFound(users, login.username, login.password, store_ok)
         IN  /\ found => Cardinality(issued) < MaxTokens
             /\ users' = IF store_ok
                         THEN TouchUser(users, login.username,
                                        hash_password(login.password), now)
                         ELSE users
             /\ login' = [login EXCEPT
                            !.pc = IF store_ok THEN "memory259" ELSE "main39",
                            !.found = found,
                            !.store_ok = login.store_ok /\ store_ok]
    /\ UNCHANGED <<calls, memories, preferences, user_sessions, issued, now,
                   st, ret>>

\* memory.py 259, 264: if result and result[0]: ... / return None
login_memory259 ==
    /\ login.pc = "memory259"
    /\ login' = [login EXCEPT !.pc = IF login.found THEN "memory261"
                                     ELSE "main39"]
    /\ UNCHANGED <<calls, users, memories, preferences, user_sessions, issued,
                   now, st, ret>>

\* memory.py 261: session_token = secrets.token_urlsafe(32)
login_memory261 ==
    /\ login.pc = "memory261"
    /\ \E tok \in TokenDraw(TRUE) :
         /\ issued' = issued \cup {tok}
         /\ login' = [login EXCEPT !.pc = "memory262", !.session_token = tok]
    /\ UNCHANGED <<calls, users, memories, preferences, user_sessions, now,
                   st, ret>>

\* memory.py 262: self.user_sessions[session_token] = datetime.now()
login_memory262 ==
    /\ login.pc = "memory262"
    /\ user_sessions' = StoreSession(user_sessions, login.session_token, now)
    /\ login' = [login EXCEPT !.pc = "memory263"]
    /\ UNCHANGED <<calls, users, memories, preferences, issued, now, st, ret>>

\* memory.py 263, main.py 38: return session_token, bound in handle_login
login_memory263 ==
    /\ login.pc = "memory263"
    /\ login' = [login EXCEPT !.pc = "main39"]
    /\ UNCHANGED <<calls, users, memories, preferences, user_sessions, issued,
                   now, st, ret>>

\* main.py 39, 44: if session_token: ... / return False
login_main39 ==
    /\ login.pc = "main39"
    /\ IF login.session_token # None
       THEN /\ login' = [login EXCEPT !.pc = "main40"]
            /\ UNCHANGED ret
       ELSE login_return(FALSE)
    /\ UNCHANGED <<calls, users, memories, preferences, user_sessions, issued,
                   now, st>>

\* main.py 40: st.session_state.authenticated = True
login_main40 ==
    /\ login.pc = "main40"
    /\ st' = [st EXCEPT !.authenticated = TRUE]
    /\ login' = [login EXCEPT !.pc = "main41"]
    /\ UNCHANGED <<calls, users, memories, preferences, user_sessions, issued,
                   now, ret>>

\* main.py 41: st.session_state.username = username
login_main41 ==
    /\ login.pc = "main41"
    /\ st' = [st EXCEPT !.username = login.username]
    /\ login' = [login EXCEPT !.pc = "main42"]
    /\ UNCHANGED <<calls, users, memories, preferences, user_sessions, issued,
                   now, ret>>

\* main.py 42: st.session_state.session_token = session_token
login_main42 ==
    /\ login.pc = "main42"
    /\ st' = [st EXCEPT !.session_token = login.session_token]
    /\ login' = [login EXCEPT !.pc = "main43"]
    /\ UNCHANGED <<calls, users, memories, preferences, user_sessions, issued,
                   now, ret>>

\* main.py 43: return True
login_main43 ==
    /\ login.pc = "main43"
    /\ login_return(TRUE)
    /\ UNCHANGED <<calls, users, memories, preferences, user_sessions, issued,
                   now, st>>

ConcLogin == login_begin("handle_login", "alice", "s3cret")

ConcSignup == login_begin("handle_signup", "alice", "s3cret")

LoginStep ==
    \/ login_memory232
    \/ login_main49
    \/ login_memory252
    \/ login_memory259
    \/ login_memory261
    \/ login_memory262
    \/ login_memory263
    \/ login_main39
    \/ login_main40
    \/ login_main41
    \/ login_main42
    \/ login_main43

NextConc ==
    \/ ConcSignup
    \/ ConcLogin
    \/ LoginStep
    \/ Tick
    \/ ThreadBegin
    \/ ThreadStep

ConcSpec == Init /\ [][NextConc]_vars

(***************************************************************************)
(* C15: with user_sessions shared by overlapping calls, every interleaving *)
(* of logins and validate_session calls ends as some sequential order      *)
(* does.  In a sequential order every validate_session call returns, so    *)
(* no call may fail, also not when another call deletes the entry between  *)
(* its membership test and its del.                                        *)
(***************************************************************************)
C15_InterleavingsSerializable ==
    \A th \in Threads :
        calls[th].pc = "done" => calls[th].outcome = Returned

====
